---- MODULE Spec2Model ----
(***************************************************************************)
(* bespoke/cli, package module (src/module/module.go, the two-argument     *)
(* ToggleModuleInVault variant, lines 20-447): the vault manifest, the     *)
(* store directory tree and the module-path symlinks, driven by the three  *)
(* exported operations InstallModuleMURL, ToggleModuleInVault and          *)
(* DeleteModule.                                                           *)
(*                                                                         *)
(* The program never creates the manifest: SetVault is only reached after  *)
(* GetVault succeeded, and setModule only writes into a module the vault   *)
(* already holds.  The manifest is therefore an input file; Init draws it  *)
(* from the manifests of a consistent installation (no file, an empty      *)
(* vault, or one module whose enabled version, symlink and store           *)
(* directories agree).                                                     *)
(***************************************************************************)
EXTENDS Naturals, Sequences, FiniteSets, TLC

VARIABLES
    vaultFile,  \* the manifest file: its status and, when it parses, the vault
    symlinks,   \* module path -> store path, for the symlinks under modulesFolder
    storeDirs,  \* the directories under storeFolder that hold extracted files
    last,       \* the last operation: arguments, system call outcomes, result
    allOk,      \* every operation so far returned nil
    orphan,     \* the last operation was a Remove of a version whose store
                \* directory was on disk with no record in the manifest
    inflight,   \* invocations running side by side: where each one is between
                \* its GetVault and its SetVault, and the vault it holds
    argv,       \* the identifier text last given to a pkg command, and what
                \* NewStoreIdentifier made of it
    response,   \* the HTTP response the last archive download received
    resolved    \* the raw link last given to parseGithubRawLink, the branch
                \* listing GitHub answered with, and what the resolver returned

vars == <<vaultFile, symlinks, storeDirs, last, allOk, orphan, inflight, argv, response,
          resolved>>

----------------------------------------------------------------------------
(* Bounds and value universes *)

NumVersions == 2

VersionNames == <<"1.0.0", "2.0.0", "3.0.0", "4.0.0">>

\* non-empty Version strings
Versions == {VersionNames[i] : i \in 1..NumVersions}

\* Version(""), len(v) == 0
NoVersion == ""

\* the module a seeded manifest holds
SeedModule == [Author |-> "acme", Name |-> "widgets"]

\* the seeded module, and a module no manifest holds
ModuleIdentifier == {SeedModule, [Author |-> "acme", Name |-> "gadgets"]}

\* the identifiers the operations are called with: every version of the
\* seeded module and the empty version, one version of the other module
StoreIdentifier ==
    {si \in [ModuleIdentifier : ModuleIdentifier, Version : Versions \cup {NoVersion}] :
        si.ModuleIdentifier # SeedModule => si.Version = VersionNames[1]}

NoIdentifier == [ModuleIdentifier |-> [Author |-> "", Name |-> ""], Version |-> NoVersion]

----------------------------------------------------------------------------
(* Identifier and path model.  A path is the sequence of its elements;     *)
(* filepath.Join drops empty elements.                                     *)

modulesFolder == <<"modules">>

storeFolder == <<"store">>

Join(base, elems) == base \o SelectSeq(elems, LAMBDA e : e # "")

ModuleIdentifier_toPath(mi) == Join(<<>>, <<mi.Author, mi.Name>>)

ModuleIdentifier_toFilePath(mi) == Join(modulesFolder, <<mi.Author, mi.Name>>)

StoreIdentifier_toFilePath(si) ==
    Join(storeFolder, <<si.ModuleIdentifier.Author, si.ModuleIdentifier.Name, si.Version>>)

IsPrefix(p, q) == Len(p) <= Len(q) /\ SubSeq(q, 1, Len(p)) = p

----------------------------------------------------------------------------
(* Metadata documents.  A metadata URL is identified with the document     *)
(* served at it.                                                           *)

Metadata(authors, name, version) == [Authors |-> authors, Name |-> name, Version |-> version]

\* the documents of the versions of the seeded module
MetadataURLs == {Metadata(<<SeedModule.Author>>, SeedModule.Name, v) : v \in Versions}

\* a document with an empty version, a document with no authors
MalformedMetadataURLs ==
    {Metadata(<<SeedModule.Author>>, SeedModule.Name, NoVersion),
     Metadata(<<>>, SeedModule.Name, VersionNames[1])}

getAuthor(m) == m.Authors[1]

getModuleIdentifier(m) == [Author |-> getAuthor(m), Name |-> m.Name]

getStoreIdentifier(m) == [ModuleIdentifier |-> getModuleIdentifier(m), Version |-> m.Version]

MetadataURL(local, remote) == [Local |-> local, Remote |-> remote]

\* the record InstallModuleMURL stores for a metadata URL
InstallRecord(metadataURL) ==
    MetadataURL(<<"/modules">> \o ModuleIdentifier_toPath(getModuleIdentifier(metadataURL))
                    \o <<"metadata.json">>,
                metadataURL)

----------------------------------------------------------------------------
(* Identifier texts.  A text is a sequence of characters; two characters   *)
(* that are not the separator are enough to tell author, name and version  *)
(* apart.  A function that indexes a slice out of range panics.            *)

MaxLen == 5

Chars == {"a", "b", "/"}

Texts == UNION {[1..n -> Chars] : n \in 0..MaxLen}

\* the segments of a text between its separators
RECURSIVE Split(_)
Split(text) ==
    IF \A i \in 1..Len(text) : text[i] # "/"
    THEN <<text>>
    ELSE LET i == CHOOSE k \in 1..Len(text) :
                        text[k] = "/" /\ \A j \in 1..(k - 1) : text[j] # "/" IN
         <<SubSeq(text, 1, i - 1)>> \o Split(SubSeq(text, i + 1, Len(text)))

\* FindStringSubmatch of ^(?<author>[^/]+)/(?<name>[^/]+)$ : the whole match
\* and the two groups, or nil
moduleIdentifierRe(text) ==
    LET segs == Split(text) IN
    IF Len(segs) = 2 /\ segs[1] # <<>> /\ segs[2] # <<>>
    THEN <<text, segs[1], segs[2]>>
    ELSE <<>>

\* FindStringSubmatch of ^(?<identifier>[^/]+/[^/]+)/(?<version>[^/]*)$
storeIdentifierRe(text) ==
    LET segs == Split(text) IN
    IF Len(segs) = 3 /\ segs[1] # <<>> /\ segs[2] # <<>>
    THEN <<text, segs[1] \o <<"/">> \o segs[2], segs[3]>>
    ELSE <<>>

Panic == [panics |-> TRUE, err |-> "nil", identifier |-> NoIdentifier]

NotParsed == [panics |-> FALSE, err |-> "none", identifier |-> NoIdentifier]

\* parts[0] and parts[1] of the submatches (the whole match and the first
\* group; the TLA+ sequence is indexed from 1)
NewModuleIdentifier(text) ==
    LET parts == moduleIdentifierRe(text) IN
    IF Len(parts) < 2
    THEN Panic
    ELSE [panics |-> FALSE, err |-> "nil",
          identifier |-> [Author |-> parts[1], Name |-> parts[2]]]

\* NewModuleIdentifier(parts[0]) and parts[1]; the function has no error
\* result
NewStoreIdentifier(text) ==
    LET parts == storeIdentifierRe(text) IN
    IF Len(parts) < 2
    THEN Panic
    ELSE LET mi == NewModuleIdentifier(parts[1]) IN
         IF mi.panics
         THEN Panic
         ELSE [panics |-> FALSE, err |-> "nil",
               identifier |-> [ModuleIdentifier |-> mi.identifier, Version |-> parts[2]]]

----------------------------------------------------------------------------
(* Vault: map[Author]map[Name]ByVersions, maps as functions on their keys  *)

EmptyMap == [k \in {} |-> k]

Put(f, k, x) == [y \in DOMAIN f \cup {k} |-> IF y = k THEN x ELSE f[y]]

Delete(f, k) == [y \in DOMAIN f \ {k} |-> f[y]]

ByVersions(enabled, metadatas) == [Enabled |-> enabled, Metadatas |-> metadatas]

EmptyVault == [Modules |-> EmptyMap]

getAllModuleVersions(v, identifier) ==
    IF identifier.Author \notin DOMAIN v.Modules
    THEN [versions |-> ByVersions(NoVersion, EmptyMap), ok |-> FALSE]
    ELSE IF identifier.Name \notin DOMAIN v.Modules[identifier.Author]
         THEN [versions |-> ByVersions(NoVersion, EmptyMap), ok |-> FALSE]
         ELSE [versions |-> v.Modules[identifier.Author][identifier.Name], ok |-> TRUE]

----------------------------------------------------------------------------
(* The manifest file and the system calls.  vaultFile.status: "ok" (the    *)
(* content parses), "absent", "torn" (a write that failed after the file   *)
(* was truncated).  The outcome of a call that may fail is an argument,    *)
(* chosen by the operation where it makes the call.                        *)

File(status, content) == [status |-> status, content |-> content]

\* os.WriteFile: written; refused before the file is touched; failed after
\* the file was truncated
WriteOutcomes == {"ok", "denied", "torn"}

\* the archive installer: extracted; URL resolution, download or extraction
\* failed
ArchiveOutcomes == {"ok", "resolve", "download", "extract"}

\* os.Open + json Decode: (&Vault{}, err) when the file is absent or does
\* not parse
GetVault ==
    IF vaultFile.status = "ok"
    THEN [vault |-> vaultFile.content, err |-> "nil"]
    ELSE [vault |-> EmptyVault, err |-> "open"]

\* json.Marshal + os.WriteFile: the file after the call, and the error
SetVault(vault, write) ==
    CASE write = "ok"     -> [file |-> File("ok", vault), err |-> "nil"]
      [] write = "denied" -> [file |-> vaultFile, err |-> "write"]
      [] write = "torn"   -> [file |-> File("torn", EmptyVault), err |-> "write"]

\* MutateVault with the result of mutate not looked at: the vault is
\* written whatever the callback answered
MutateVault_ResultUnchecked(mutated, write) ==
    LET g == GetVault IN
    IF g.err # "nil"
    THEN [file |-> vaultFile, symlinks |-> symlinks, wrote |-> "none", err |-> g.err]
    ELSE LET m == mutated
             w == SetVault(m.vault, write) IN
         [file |-> w.file, symlinks |-> m.symlinks, wrote |-> write, err |-> w.err]

\* load, apply mutate, persist only when mutate returned true.  mutated is
\* what the callback mutate yields on the vault GetVault loaded: the vault it
\* leaves, its result and the symlinks it leaves (it is not looked at when
\* GetVault fails); wrote is the outcome of the write, "none" when SetVault
\* is not reached.
MutateVault(mutated, write) ==
    LET g == GetVault IN
    IF g.err # "nil"
    THEN [file |-> vaultFile, symlinks |-> symlinks, wrote |-> "none", err |-> g.err]
    ELSE LET m == mutated IN
         IF ~m.ok
         THEN [file |-> vaultFile, symlinks |-> m.symlinks, wrote |-> "none",
               err |-> "failed to mutate vault"]
         ELSE LET w == SetVault(m.vault, write) IN
              [file |-> w.file, symlinks |-> m.symlinks, wrote |-> write, err |-> w.err]

\* what os.Symlink(store path, module path) answers: EEXIST when anything is
\* at the module path already, another error when the system refuses
SymlinkOutcome(links, identifier, refused) ==
    IF ModuleIdentifier_toFilePath(identifier.ModuleIdentifier) \in DOMAIN links
    THEN "EEXIST"
    ELSE IF refused THEN "err" ELSE "ok"

\* createSymlink that removes what it finds at the module path and does not
\* link again
createSymlink_RemovesExisting(links, identifier, refused) ==
    CASE SymlinkOutcome(links, identifier, refused) = "ok" ->
            Put(links, ModuleIdentifier_toFilePath(identifier.ModuleIdentifier),
                StoreIdentifier_toFilePath(identifier))
      [] SymlinkOutcome(links, identifier, refused) = "EEXIST" ->
            Delete(links, ModuleIdentifier_toFilePath(identifier.ModuleIdentifier))
      [] OTHER -> links

\* os.Symlink(store path, module path); the error is dropped
createSymlink(links, identifier, refused) ==
    IF SymlinkOutcome(links, identifier, refused) = "ok"
    THEN Put(links, ModuleIdentifier_toFilePath(identifier.ModuleIdentifier),
             StoreIdentifier_toFilePath(identifier))
    ELSE links

\* os.Remove(module path); the error (no such file) is dropped
destroySymlink(links, identifier) == Delete(links, ModuleIdentifier_toFilePath(identifier))

\* os.RemoveAll(store path): on success the path and everything below it
\* are gone
deleteModuleInStore(identifier, refused) ==
    IF refused
    THEN [dirs |-> storeDirs, err |-> "removeall"]
    ELSE [dirs |-> {d \in storeDirs : ~IsPrefix(StoreIdentifier_toFilePath(identifier), d)},
          err |-> "nil"]

\* resolve the URL, download the archive, extract under the store path.
\* A failed extraction may leave files behind (partial).
downloadModuleInStore(metadataURL, storeIdentifier, archive, partial) ==
    CASE archive = "ok" ->
            [dirs |-> storeDirs \cup {StoreIdentifier_toFilePath(storeIdentifier)}, err |-> "nil"]
      [] archive = "extract" ->
            [dirs |-> IF partial
                      THEN storeDirs \cup {StoreIdentifier_toFilePath(storeIdentifier)}
                      ELSE storeDirs,
             err |-> "extract"]
      [] OTHER -> [dirs |-> storeDirs, err |-> archive]

\* versions.Metadatas is the vault's own map (a Go map is a reference), so
\* the assignment reaches the vault
setModule(v, m, module) ==
    IF m.Version = NoVersion
    THEN [vault |-> v, ok |-> FALSE, symlinks |-> symlinks]
    ELSE LET id == getModuleIdentifier(m)
             r == getAllModuleVersions(v, id) IN
         IF ~r.ok
         THEN [vault |-> v, ok |-> FALSE, symlinks |-> symlinks]
         ELSE [vault |-> [v EXCEPT !.Modules[id.Author][id.Name].Metadatas =
                                        Put(@, m.Version, module)],
               ok |-> TRUE, symlinks |-> symlinks]

AddModuleInVault(metadata, module, write) ==
    LET mutate(v) == setModule(v, metadata, module) IN
    MutateVault(mutate(GetVault.vault), write)

\* RemoveModuleInVault whose callback reports failure when the version has no
\* record in the module's Metadatas
RemoveModuleInVault_NeedsRecord(identifier, write) ==
    LET mutate(v) ==
            LET r == getAllModuleVersions(v, identifier.ModuleIdentifier)
                modules == r.versions IN
            IF ~r.ok \/ identifier.Version \notin DOMAIN modules.Metadatas
            THEN [vault |-> v, ok |-> FALSE, symlinks |-> symlinks]
            ELSE [vault |-> [v EXCEPT !.Modules[identifier.ModuleIdentifier.Author]
                                               [identifier.ModuleIdentifier.Name].Metadatas =
                                            Delete(@, identifier.Version)],
                  ok |-> TRUE,
                  symlinks |-> IF modules.Enabled = identifier.Version
                               THEN destroySymlink(symlinks, identifier.ModuleIdentifier)
                               ELSE symlinks]
    IN MutateVault(mutate(GetVault.vault), write)

\* modules is a copy of the vault's ByVersions value (map[Name]ByVersions
\* holds structs): clearing modules.Enabled does not reach the vault, the
\* delete on the shared Metadatas map does
RemoveModuleInVault(identifier, write) ==
    LET mutate(v) ==
            LET r == getAllModuleVersions(v, identifier.ModuleIdentifier)
                modules == r.versions IN
            IF ~r.ok
            THEN [vault |-> v, ok |-> FALSE, symlinks |-> symlinks]
            ELSE [vault |-> [v EXCEPT !.Modules[identifier.ModuleIdentifier.Author]
                                               [identifier.ModuleIdentifier.Name].Metadatas =
                                            Delete(@, identifier.Version)],
                  ok |-> TRUE,
                  symlinks |-> IF modules.Enabled = identifier.Version
                               THEN destroySymlink(symlinks, identifier.ModuleIdentifier)
                               ELSE symlinks]
    IN MutateVault(mutate(GetVault.vault), write)

----------------------------------------------------------------------------
(* What a Load of the manifest shows, and what is on disk *)

\* the module is known to the persisted vault
Known(file, mi) == file.status = "ok" /\ getAllModuleVersions(file.content, mi).ok

\* the module's persisted Enabled; empty when the module is not known
EnabledOf(file, mi) ==
    IF Known(file, mi) THEN getAllModuleVersions(file.content, mi).versions.Enabled
    ELSE NoVersion

\* the versions that have a VersionRecord in the persisted vault
RecordsOf(file, mi) ==
    IF Known(file, mi) THEN DOMAIN getAllModuleVersions(file.content, mi).versions.Metadatas
    ELSE {}

HasRecord(file, si) == si.Version \in RecordsOf(file, si.ModuleIdentifier)

LinkAt(links, mi) == ModuleIdentifier_toFilePath(mi) \in DOMAIN links

\* the symlink at the module path points at the store path of si
LinksTo(links, si) ==
    /\ LinkAt(links, si.ModuleIdentifier)
    /\ links[ModuleIdentifier_toFilePath(si.ModuleIdentifier)] = StoreIdentifier_toFilePath(si)

DirExists(dirs, si) == StoreIdentifier_toFilePath(si) \in dirs

----------------------------------------------------------------------------
(* History: the last operation ("Toggle", "Remove", "Install"), the        *)
(* identifier it acted on, Toggle's enabled argument, the outcomes of the  *)
(* archive installer, of os.Symlink and of the manifest write ("none": not *)
(* reached) and the error returned ("nil": success).                       *)

Call(op, identifier, enabled, archive, symlink, write, err) ==
    [op |-> op, identifier |-> identifier, enabled |-> enabled, archive |-> archive,
     symlink |-> symlink, write |-> write, err |-> err]

Return(call) ==
    /\ last' = call
    /\ allOk' = (allOk /\ call.err = "nil")
    /\ orphan' = (/\ call.op = "Remove"
                  /\ call.identifier.Version # NoVersion
                  /\ DirExists(storeDirs, call.identifier)
                  /\ ~HasRecord(vaultFile, call.identifier))
    /\ UNCHANGED <<inflight, argv, resolved>>

----------------------------------------------------------------------------
(* The exported operations *)

\* ToggleModuleInVault whose disabling branch does not compare the version
\* with modules.Enabled: every disable destroys the symlink and writes
ToggleModuleInVault_DisablesAny(identifier, enabled) ==
    LET g == GetVault
        r == getAllModuleVersions(g.vault, identifier.ModuleIdentifier)
    IN
    IF g.err # "nil"
    THEN /\ UNCHANGED <<vaultFile, symlinks, storeDirs>>
         /\ Return(Call("Toggle", identifier, enabled, "none", "none", "none", g.err))
    ELSE IF ~r.ok
    THEN /\ UNCHANGED <<vaultFile, symlinks, storeDirs>>
         /\ Return(Call("Toggle", identifier, enabled, "none", "none", "none",
                        "no modules with identifier"))
    ELSE \E refused \in BOOLEAN, write \in WriteOutcomes :
            LET w == SetVault(g.vault, write) IN
            /\ symlinks' = IF enabled
                           THEN createSymlink(symlinks, identifier, refused)
                           ELSE destroySymlink(symlinks, identifier.ModuleIdentifier)
            /\ vaultFile' = w.file
            /\ UNCHANGED storeDirs
            /\ Return(Call("Toggle", identifier, enabled, "none",
                           IF enabled THEN SymlinkOutcome(symlinks, identifier, refused)
                           ELSE "none",
                           write, w.err))

\* modules is a copy of the vault's ByVersions value: the assignments to
\* modules.Enabled are lost, and SetVault writes the vault as it was loaded
ToggleModuleInVault(identifier, enabled) ==
    LET g == GetVault
        r == getAllModuleVersions(g.vault, identifier.ModuleIdentifier)
        modules == r.versions
    IN
    IF g.err # "nil"
    THEN /\ UNCHANGED <<vaultFile, symlinks, storeDirs>>
         /\ Return(Call("Toggle", identifier, enabled, "none", "none", "none", g.err))
    ELSE IF ~r.ok
    THEN /\ UNCHANGED <<vaultFile, symlinks, storeDirs>>
         /\ Return(Call("Toggle", identifier, enabled, "none", "none", "none",
                        "no modules with identifier"))
    ELSE IF enabled
    THEN \E refused \in BOOLEAN, write \in WriteOutcomes :
            LET w == SetVault(g.vault, write) IN
            /\ symlinks' = createSymlink(symlinks, identifier, refused)
            /\ vaultFile' = w.file
            /\ UNCHANGED storeDirs
            /\ Return(Call("Toggle", identifier, enabled, "none",
                           SymlinkOutcome(symlinks, identifier, refused), write, w.err))
    ELSE IF modules.Enabled = identifier.Version
    THEN \E write \in WriteOutcomes :
            LET w == SetVault(g.vault, write) IN
            /\ symlinks' = destroySymlink(symlinks, identifier.ModuleIdentifier)
            /\ vaultFile' = w.file
            /\ UNCHANGED storeDirs
            /\ Return(Call("Toggle", identifier, enabled, "none", "none", write, w.err))
    ELSE /\ UNCHANGED <<vaultFile, symlinks, storeDirs>>
         /\ Return(Call("Toggle", identifier, enabled, "none", "none", "none", "nil"))

\* DeleteModule with the store deleted before the vault mutation is known to
\* have been persisted
DeleteModule_StoreFirst(identifier) ==
    \E write \in WriteOutcomes, refused \in BOOLEAN :
        LET del == deleteModuleInStore(identifier, refused)
            rm == RemoveModuleInVault(identifier, write) IN
        /\ vaultFile' = rm.file
        /\ symlinks' = rm.symlinks
        /\ storeDirs' = del.dirs
        /\ Return(Call("Remove", identifier, FALSE, "none", "none", rm.wrote,
                       IF rm.err # "nil" THEN rm.err ELSE del.err))

DeleteModule(identifier) ==
    \E write \in WriteOutcomes :
        LET rm == RemoveModuleInVault(identifier, write) IN
        IF rm.err # "nil"
        THEN /\ vaultFile' = rm.file
             /\ symlinks' = rm.symlinks
             /\ UNCHANGED storeDirs
             /\ Return(Call("Remove", identifier, FALSE, "none", "none", rm.wrote, rm.err))
        ELSE \E refused \in BOOLEAN :
                LET del == deleteModuleInStore(identifier, refused) IN
                /\ vaultFile' = rm.file
                /\ symlinks' = rm.symlinks
                /\ storeDirs' = del.dirs
                /\ Return(Call("Remove", identifier, FALSE, "none", "none", rm.wrote, del.err))

\* InstallModuleMURL with the error of downloadModuleInStore not checked: the
\* record is added whatever the archive installer answered
InstallModuleMURL_ErrorUnchecked(metadataURL) ==
    \/ /\ UNCHANGED <<vaultFile, symlinks, storeDirs>>
       /\ Return(Call("Install", NoIdentifier, FALSE, "none", "none", "none", "metadata"))
    \/ IF Len(metadataURL.Authors) = 0
       THEN /\ UNCHANGED <<vaultFile, symlinks, storeDirs>>
            /\ Return(Call("Install", NoIdentifier, FALSE, "none", "none", "none", "panic"))
       ELSE \E archive \in ArchiveOutcomes, write \in WriteOutcomes :
            \E partial \in IF archive = "extract" THEN BOOLEAN ELSE {FALSE} :
                LET metadata == metadataURL
                    storeIdentifier == getStoreIdentifier(metadata)
                    dl == downloadModuleInStore(metadataURL, storeIdentifier, archive, partial)
                    add == AddModuleInVault(metadata, InstallRecord(metadataURL), write)
                IN
                /\ storeDirs' = dl.dirs
                /\ vaultFile' = add.file
                /\ symlinks' = add.symlinks
                /\ Return(Call("Install", storeIdentifier, FALSE, archive, "none", add.wrote,
                               add.err))

\* fetchRemoteMetadata, then getStoreIdentifier (Authors[0] panics on an
\* empty list), then the archive, and the vault only after the archive
InstallModuleMURL(metadataURL) ==
    \/ /\ UNCHANGED <<vaultFile, symlinks, storeDirs>>
       /\ Return(Call("Install", NoIdentifier, FALSE, "none", "none", "none", "metadata"))
    \/ IF Len(metadataURL.Authors) = 0
       THEN /\ UNCHANGED <<vaultFile, symlinks, storeDirs>>
            /\ Return(Call("Install", NoIdentifier, FALSE, "none", "none", "none", "panic"))
       ELSE \E archive \in ArchiveOutcomes :
            LET metadata == metadataURL
                storeIdentifier == getStoreIdentifier(metadata)
            IN
            IF archive # "ok"
            THEN \E partial \in IF archive = "extract" THEN BOOLEAN ELSE {FALSE} :
                    LET dl == downloadModuleInStore(metadataURL, storeIdentifier, archive,
                                                    partial) IN
                    /\ storeDirs' = dl.dirs
                    /\ UNCHANGED <<vaultFile, symlinks>>
                    /\ Return(Call("Install", storeIdentifier, FALSE, archive, "none", "none",
                                   dl.err))
            ELSE \E write \in WriteOutcomes :
                    LET dl == downloadModuleInStore(metadataURL, storeIdentifier, archive,
                                                    FALSE)
                        add == AddModuleInVault(metadata, InstallRecord(metadataURL), write)
                    IN
                    /\ storeDirs' = dl.dirs
                    /\ vaultFile' = add.file
                    /\ symlinks' = add.symlinks
                    /\ Return(Call("Install", storeIdentifier, FALSE, archive, "none",
                                   add.wrote, add.err))

----------------------------------------------------------------------------
(* The archive download seen as an HTTP exchange: http.Get returned a      *)
(* response (no transport error), whose body goes to archive.UnTarGZ.      *)

StatusCodes == {200, 404}

Bodies == {"archive", "other"}

Response == [StatusCode : StatusCodes, Body : Bodies]

NoResponse == [StatusCode |-> 0, Body |-> "none"]

\* what archive.UnTarGZ can answer for a body: a body that is no gzip
\* archive fails before anything is written, an archive is extracted or
\* fails on the way
UnTarGZ(body) == IF body = "archive" THEN {"ok", "extract"} ELSE {"extract"}

\* InstallModuleMURL when URL resolution succeeds and http.Get returns the
\* response res: downloadModuleInStore hands res.Body to UnTarGZ and does
\* not read res.StatusCode
InstallOverHTTP ==
    \E metadataURL \in MetadataURLs, res \in Response :
        /\ InstallModuleMURL(metadataURL)
        /\ last'.archive \in UnTarGZ(res.Body)
        /\ res.Body # "archive" => storeDirs' = storeDirs
        /\ response' = res

----------------------------------------------------------------------------
(* Invocations of the program running side by side on the same manifest.   *)
(* Nothing locks the file between GetVault and SetVault, so an invocation  *)
(* takes two steps: it loads the vault into its memory, and later mutates  *)
(* that vault and writes it.  loadedAt is the number of writes the file    *)
(* had received when the invocation loaded it, wroteAt the rank of its own *)
(* write among the writes (0: it has not written).                         *)

Invocation == {"A", "B"}

Idle ==
    [pc |-> "idle", call |-> Call("none", NoIdentifier, FALSE, "none", "none", "none", "nil"),
     vault |-> EmptyVault, loadedAt |-> 0, wroteAt |-> 0]

\* the writes the manifest has received from the invocations
Writes == Cardinality({p \in Invocation : inflight[p].wroteAt > 0})

\* the vault read again from the manifest at the time of the mutation, as
\* under a lock held from GetVault to SetVault
LoadedVault_ReadAgain(p) ==
    IF vaultFile.status = "ok" THEN vaultFile.content ELSE inflight[p].vault

\* the vault variable of MutateVault and ToggleModuleInVault: what GetVault
\* returned to this invocation
LoadedVault(p) == inflight[p].vault

\* GetVault of an invocation.  An Install has run the archive installer
\* before (it precedes AddModuleInVault); a failed load ends the invocation.
InvocationLoads(p, op, identifier, enabled) ==
    LET g == GetVault
        archive == IF op = "Install" THEN "ok" ELSE "none" IN
    /\ inflight[p].pc = "idle"
    /\ inflight' = [inflight EXCEPT ![p] =
            [pc |-> IF g.err = "nil" THEN "loaded" ELSE "done",
             call |-> Call(op, identifier, enabled, archive, "none", "none", g.err),
             vault |-> g.vault, loadedAt |-> Writes, wroteAt |-> 0]]
    /\ storeDirs' = IF op = "Install"
                    THEN storeDirs \cup {StoreIdentifier_toFilePath(identifier)}
                    ELSE storeDirs
    /\ UNCHANGED <<vaultFile, symlinks, last, allOk, orphan, argv, response, resolved>>

\* what the invocation does to the vault it holds: Vault.setModule for an
\* Install, the callback of RemoveModuleInVault for a Remove, the body of
\* ToggleModuleInVault after GetVault for a Toggle (write: whether SetVault
\* is reached when ok)
InvocationMutates(p) ==
    LET c == inflight[p].call
        id == c.identifier
        mi == id.ModuleIdentifier
        v == LoadedVault(p)
        r == getAllModuleVersions(v, mi)
        modules == r.versions
        unknown == [vault |-> v, ok |-> FALSE, symlinks |-> symlinks, write |-> FALSE,
                    err |-> IF c.op = "Toggle" THEN "no modules with identifier"
                            ELSE "failed to mutate vault"]
    IN
    CASE ~r.ok -> unknown
      [] r.ok /\ c.op = "Install" ->
            setModule(v, Metadata(<<mi.Author>>, mi.Name, id.Version),
                      InstallRecord(Metadata(<<mi.Author>>, mi.Name, id.Version)))
                @@ [write |-> TRUE, err |-> "nil"]
      [] r.ok /\ c.op = "Remove" ->
            [vault |-> [v EXCEPT !.Modules[mi.Author][mi.Name].Metadatas =
                                    Delete(@, id.Version)],
             ok |-> TRUE,
             symlinks |-> IF modules.Enabled = id.Version
                          THEN destroySymlink(symlinks, mi) ELSE symlinks,
             write |-> TRUE, err |-> "nil"]
      [] r.ok /\ c.op = "Toggle" /\ c.enabled ->
            [vault |-> v, ok |-> TRUE, symlinks |-> createSymlink(symlinks, id, FALSE),
             write |-> TRUE, err |-> "nil"]
      [] r.ok /\ c.op = "Toggle" /\ ~c.enabled /\ modules.Enabled = id.Version ->
            [vault |-> v, ok |-> TRUE, symlinks |-> destroySymlink(symlinks, mi),
             write |-> TRUE, err |-> "nil"]
      [] OTHER ->
            [vault |-> v, ok |-> TRUE, symlinks |-> symlinks, write |-> FALSE, err |-> "nil"]

\* the rest of the invocation: the mutation of the vault it holds, SetVault
\* of that vault, and for a Remove whose write went through the deletion of
\* the store directory
InvocationPersists(p) ==
    /\ inflight[p].pc = "loaded"
    /\ LET c == inflight[p].call
           m == InvocationMutates(p) IN
       IF ~m.write
       THEN /\ inflight' = [inflight EXCEPT ![p].pc = "done", ![p].call.err = m.err]
            /\ symlinks' = m.symlinks
            /\ UNCHANGED <<vaultFile, storeDirs>>
       ELSE \E write \in WriteOutcomes :
                LET w == SetVault(m.vault, write) IN
                /\ vaultFile' = w.file
                /\ symlinks' = m.symlinks
                /\ storeDirs' = IF c.op = "Remove" /\ w.err = "nil"
                                THEN deleteModuleInStore(c.identifier, FALSE).dirs
                                ELSE storeDirs
                /\ inflight' = [inflight EXCEPT
                        ![p].pc = "done", ![p].call.write = write, ![p].call.err = w.err,
                        ![p].wroteAt = IF write = "ok" THEN Writes + 1 ELSE 0]
    /\ UNCHANGED <<last, allOk, orphan, argv, response, resolved>>

----------------------------------------------------------------------------
(* The GitHub version resolver.  A ref is the sequence of its characters;  *)
(* a raw link is the record of its host and path parts.                    *)

CommitLen == 40

MaxRefLen == 2

RefChars == {"a", "z", "+", "%"}

HexDigits == {"0", "1", "2", "3", "4", "5", "6", "7", "8", "9",
              "a", "b", "c", "d", "e", "f", "A", "B", "C", "D", "E", "F"}

ShortRefs == UNION {[1..n -> RefChars] : n \in 1..MaxRefLen}

\* prefix followed by as many "a" as it takes to make n characters
Pad(prefix, n) == [i \in 1..n |-> IF i <= Len(prefix) THEN prefix[i] ELSE "a"]

LongRefs == {Pad(prefix, n) : prefix \in ShortRefs \cup {<<>>},
                              n \in {CommitLen - 1, CommitLen, CommitLen + 1}}

Refs == ShortRefs \cup LongRefs

\* https://<host>/<owner>/<repo>/<version>/<dirname>/<basename>
RawLink(host, owner, repo, version, dirname, basename) ==
    [host |-> host, owner |-> owner, repo |-> repo, version |-> version,
     dirname |-> dirname, basename |-> basename]

RawLinks ==
    {RawLink("raw.githubusercontent.com", "acme", "widgets", v, "dist", "metadata.json") :
        v \in Refs \cup {<<>>}}
    \cup {RawLink("example.com", "acme", "widgets", <<"a">>, "dist", "metadata.json"),
          RawLink("raw.githubusercontent.com", "acme", "widgets", <<"a">>, "dist", "")}

NoSubmatches == [matches |-> FALSE, owner |-> "", repo |-> "", version |-> <<>>, path |-> ""]

\* the submatches of githubRawRe: owner, repo, version and basename are one
\* or more characters other than "/"
githubRawRe(metadataURL) ==
    IF /\ metadataURL.host = "raw.githubusercontent.com"
       /\ metadataURL.owner # ""
       /\ metadataURL.repo # ""
       /\ metadataURL.version # <<>>
       /\ metadataURL.basename # ""
    THEN [matches |-> TRUE, owner |-> metadataURL.owner, repo |-> metadataURL.repo,
          version |-> metadataURL.version, path |-> metadataURL.dirname]
    ELSE NoSubmatches

\* what client.Repositories.ListBranches answers: an error, or the branches
BranchNames == {<<"a">>, <<"z">>, Pad(<<>>, CommitLen)}

ListBranches ==
    {[err |-> "network", names |-> {}]} \cup
    {[err |-> "nil", names |-> names] : names \in SUBSET BranchNames}

GithubPathVersion(type, commit, tag, branch) ==
    [type |-> type, commit |-> commit, tag |-> tag, branch |-> branch]

NoGithubPathVersion == GithubPathVersion("", <<>>, <<>>, <<>>)

\* the byte a %XX escape stands for
Unhex(h, l) == IF h = "a" /\ l = "a" THEN "0xAA" ELSE "0x??"

\* url.QueryUnescape: "+" is a space, %XX the byte XX, a "%" not followed
\* by two hexadecimal digits an error
RECURSIVE QueryUnescape(_)
QueryUnescape(s) ==
    IF s = <<>>
    THEN [err |-> "nil", value |-> <<>>]
    ELSE IF s[1] = "%"
    THEN IF Len(s) >= 3 /\ s[2] \in HexDigits /\ s[3] \in HexDigits
         THEN LET rest == QueryUnescape(SubSeq(s, 4, Len(s)))
              IN  IF rest.err # "nil"
                  THEN rest
                  ELSE [err |-> "nil", value |-> <<Unhex(s[2], s[3])>> \o rest.value]
         ELSE [err |-> "invalid URL escape", value |-> <<>>]
    ELSE LET rest == QueryUnescape(Tail(s))
         IN  IF rest.err # "nil"
             THEN rest
             ELSE [err |-> "nil",
                   value |-> <<IF s[1] = "+" THEN " " ELSE s[1]>> \o rest.value]

VersionedGithubPath(owner, repo, version, path) ==
    [owner |-> owner, repo |-> repo, version |-> version, path |-> path]

NoVersionedGithubPath == VersionedGithubPath("", "", NoGithubPathVersion, "")

\* what parseGithubRawLink returns, and whether it sent the branch listing
\* request on the way
Resolution(err, listed, ghp) ==
    [err |-> err, listed |-> listed, owner |-> ghp.owner, repo |-> ghp.repo,
     version |-> ghp.version, path |-> ghp.path]

\* listed: the branch listing request was sent
parseGithubRawLink(metadataURL, branches) ==
    LET submatches == githubRawRe(metadataURL)
        v == submatches.version
        Found(version) ==
            VersionedGithubPath(submatches.owner, submatches.repo, version, submatches.path)
    IN  IF ~submatches.matches
        THEN Resolution("URL cannot be parsed", FALSE, NoVersionedGithubPath)
        ELSE IF branches.err # "nil"
             THEN Resolution(branches.err, TRUE, NoVersionedGithubPath)
             ELSE IF Len(v) = CommitLen
             THEN Resolution("nil", TRUE, Found(GithubPathVersion("commit", v, <<>>, <<>>)))
             ELSE IF v \in branches.names
             THEN Resolution("nil", TRUE, Found(GithubPathVersion("branch", <<>>, <<>>, v)))
             ELSE LET tag == QueryUnescape(v)
                  IN  IF tag.err # "nil"
                      THEN Resolution(tag.err, TRUE, NoVersionedGithubPath)
                      ELSE Resolution("nil", TRUE,
                                      Found(GithubPathVersion("tag", <<>>, tag.value, <<>>)))

NotResolved ==
    [metadataURL |-> RawLink("", "", "", <<>>, "", ""),
     branches |-> [err |-> "nil", names |-> {}],
     result |-> Resolution("none", FALSE, NoVersionedGithubPath)]

\* a raw link about to be resolved, and the listing GitHub has for it
ToResolve(metadataURL, branches) ==
    [metadataURL |-> metadataURL,
     branches |-> branches,
     result |-> Resolution("none", FALSE, NoVersionedGithubPath)]

Resolve ==
    /\ resolved.result.err = "none"
    /\ resolved # NotResolved
    /\ resolved' = [resolved EXCEPT
                        !.result = parseGithubRawLink(resolved.metadataURL, resolved.branches)]
    /\ UNCHANGED <<vaultFile, symlinks, storeDirs, last, allOk, orphan, inflight, argv,
                   response>>

----------------------------------------------------------------------------
(* Initial states: the manifest, symlink and store of a consistent         *)
(* installation holding at most SeedModule.                                *)

SeedVault(enabled, versions) ==
    [Modules |->
        [a \in {SeedModule.Author} |->
            [n \in {SeedModule.Name} |->
                ByVersions(enabled,
                           [v \in versions |-> InstallRecord(Metadata(<<a>>, n, v))])]]]

VersionOf(mi, v) == [ModuleIdentifier |-> mi, Version |-> v]

Init ==
    /\ last = Call("none", NoIdentifier, FALSE, "none", "none", "none", "nil")
    /\ allOk = TRUE
    /\ orphan = FALSE
    /\ inflight = [p \in Invocation |-> Idle]
    /\ argv = [text |-> <<>>, result |-> NotParsed]
    /\ response = NoResponse
    /\ resolved = NotResolved
    /\ \/ /\ vaultFile \in {File("absent", EmptyVault), File("ok", EmptyVault)}
          /\ symlinks = EmptyMap
          /\ storeDirs = {}
       \/ \E versions \in SUBSET Versions : \E enabled \in versions \cup {NoVersion} :
            /\ vaultFile = File("ok", SeedVault(enabled, versions))
            /\ symlinks = IF enabled = NoVersion
                          THEN EmptyMap
                          ELSE Put(EmptyMap, ModuleIdentifier_toFilePath(SeedModule),
                                   StoreIdentifier_toFilePath(VersionOf(SeedModule, enabled)))
            /\ storeDirs = {StoreIdentifier_toFilePath(VersionOf(SeedModule, v)) : v \in versions}

Toggle == \E identifier \in StoreIdentifier, enabled \in BOOLEAN :
            ToggleModuleInVault(identifier, enabled) /\ UNCHANGED response

Remove == \E identifier \in StoreIdentifier : DeleteModule(identifier) /\ UNCHANGED response

Install == \E metadataURL \in MetadataURLs :
            InstallModuleMURL(metadataURL) /\ UNCHANGED response

Next == Toggle \/ Remove \/ Install

Spec == Init /\ [][Next]_vars

\* the same operations, Install also of the malformed documents
InstallMalformed == \E metadataURL \in MalformedMetadataURLs :
                        InstallModuleMURL(metadataURL) /\ UNCHANGED response

NextAll == Next \/ InstallMalformed

SpecAll == Init /\ [][NextAll]_vars

\* two invocations side by side, each one operation of the package
LoadStep ==
    \E p \in Invocation :
        \/ \E metadataURL \in MetadataURLs :
                InvocationLoads(p, "Install", getStoreIdentifier(metadataURL), FALSE)
        \/ \E identifier \in StoreIdentifier : InvocationLoads(p, "Remove", identifier, FALSE)
        \/ \E identifier \in StoreIdentifier, enabled \in BOOLEAN :
                InvocationLoads(p, "Toggle", identifier, enabled)

PersistStep == \E p \in Invocation : InvocationPersists(p)

NextConcurrent == LoadStep \/ PersistStep

SpecConcurrent == Init /\ [][NextConcurrent]_vars

\* pkg rem / enable / disable [id]: the argument goes through
\* NewStoreIdentifier before anything else is done
ParseArgument ==
    \E text \in Texts :
        /\ argv' = [text |-> text, result |-> NewStoreIdentifier(text)]
        /\ UNCHANGED <<vaultFile, symlinks, storeDirs, last, allOk, orphan, inflight, response,
                       resolved>>

NextParse == ParseArgument

\* Installs whose archive download received a response
NextHTTP == InstallOverHTTP

SpecHTTP == Init /\ [][NextHTTP]_vars

SpecParse == Init /\ [][NextParse]_vars

\* resolutions of raw links, of every link and listing of the universe
InitResolve ==
    /\ last = Call("none", NoIdentifier, FALSE, "none", "none", "none", "nil")
    /\ allOk = TRUE
    /\ orphan = FALSE
    /\ inflight = [p \in Invocation |-> Idle]
    /\ argv = [text |-> <<>>, result |-> NotParsed]
    /\ response = NoResponse
    /\ vaultFile = File("absent", EmptyVault)
    /\ symlinks = EmptyMap
    /\ storeDirs = {}
    /\ \E metadataURL \in RawLinks, branches \in ListBranches :
            resolved = ToResolve(metadataURL, branches)

NextResolve == Resolve

SpecResolve == InitResolve /\ [][NextResolve]_vars

----------------------------------------------------------------------------
(* Claims.  In an action formula last' is the operation the step performs, *)
(* the unprimed variables the state it starts from, the primed ones the    *)
(* state it leaves.                                                        *)

\* C1 (as claimed): in every reachable state, for every module of the
\* persisted vault, Enabled is empty or a key of the module's version mapping.
C1_EnabledIsInstalled ==
    \A mi \in ModuleIdentifier :
        Known(vaultFile, mi) =>
            \/ EnabledOf(vaultFile, mi) = NoVersion
            \/ EnabledOf(vaultFile, mi) \in RecordsOf(vaultFile, mi)

\* C2 (as claimed): while every operation so far returned success, a symlink
\* exists at a module path iff the module's persisted Enabled is non-empty,
\* and it then points to the store path of the enabled version.
C2_SymlinkIffEnabled ==
    allOk =>
        \A mi \in ModuleIdentifier :
            /\ LinkAt(symlinks, mi) <=> EnabledOf(vaultFile, mi) # NoVersion
            /\ LinkAt(symlinks, mi) =>
                    LinksTo(symlinks, VersionOf(mi, EnabledOf(vaultFile, mi)))

\* C3 (as claimed): a Toggle(v, true) that succeeds on a known module leaves
\* the persisted Enabled equal to v; a Toggle(v, false) that succeeds while v
\* was the enabled version leaves the persisted Enabled empty.
C3_ToggleIsPersisted ==
    [][LET identifier == last'.identifier
           mi == identifier.ModuleIdentifier IN
       (/\ last'.op = "Toggle"
        /\ last'.err = "nil"
        /\ identifier.Version # NoVersion
        /\ Known(vaultFile, mi))
       => /\ last'.enabled => EnabledOf(vaultFile', mi) = identifier.Version
          /\ (~last'.enabled /\ EnabledOf(vaultFile, mi) = identifier.Version)
                => EnabledOf(vaultFile', mi) = NoVersion]_vars

\* C4 (as claimed, when the system does not refuse the symlink): after a
\* successful Toggle(v, true) the module-path symlink points to the store
\* path of v, also when a symlink to another version was there; after a
\* successful Toggle(v, false) with v enabled there is no symlink.
C4_ToggleRepointsSymlink ==
    [][LET identifier == last'.identifier
           mi == identifier.ModuleIdentifier IN
       (/\ last'.op = "Toggle"
        /\ last'.err = "nil"
        /\ last'.symlink # "err"
        /\ identifier.Version # NoVersion
        /\ Known(vaultFile, mi))
       => /\ last'.enabled => LinksTo(symlinks', identifier)
          /\ (~last'.enabled /\ EnabledOf(vaultFile, mi) = identifier.Version)
                => ~LinkAt(symlinks', mi)]_vars

\* C5 (as claimed, with a readable manifest whose write is not refused):
\* Install of a version of a module the vault does not know, with metadata
\* fetch and extraction succeeding, returns success and leaves the module
\* known, the version recorded and Enabled empty.
C5_InstallOfAbsentModule ==
    [][LET identifier == last'.identifier
           mi == identifier.ModuleIdentifier IN
       (/\ last'.op = "Install"
        /\ last'.archive = "ok"
        /\ last'.write \in {"ok", "none"}
        /\ vaultFile.status = "ok"
        /\ ~Known(vaultFile, mi))
       => /\ last'.err = "nil"
          /\ Known(vaultFile', mi)
          /\ HasRecord(vaultFile', identifier)
          /\ EnabledOf(vaultFile', mi) = NoVersion]_vars

\* C6: an Install whose archive installer fails (URL resolution, download or
\* extraction) returns a failure and adds no VersionRecord for its version.
C6_NoRecordOnInstallerFailure ==
    [][(/\ last'.op = "Install"
        /\ last'.archive \in ArchiveOutcomes \ {"ok"})
       => /\ last'.err # "nil"
          /\ HasRecord(vaultFile', last'.identifier) => HasRecord(vaultFile, last'.identifier)]_vars

\* C6 witness: an Install failed in extraction, left the version's files in
\* the store, and the vault, which knows the module, holds no record of the
\* version.
C6_Witness ==
    /\ last.op = "Install" /\ last.archive = "extract" /\ last.err = "extract"
    /\ DirExists(storeDirs, last.identifier)
    /\ Known(vaultFile, last.identifier.ModuleIdentifier)
    /\ ~HasRecord(vaultFile, last.identifier)

\* C7 (as claimed): after a successful Remove(v) of the enabled version v,
\* the vault has no record of v, Enabled is empty, no symlink is at the
\* module path and v's store directory is gone.
C7_RemoveOfEnabledVersion ==
    [][LET identifier == last'.identifier
           mi == identifier.ModuleIdentifier IN
       (/\ last'.op = "Remove"
        /\ last'.err = "nil"
        /\ identifier.Version # NoVersion
        /\ EnabledOf(vaultFile, mi) = identifier.Version)
       => /\ ~HasRecord(vaultFile', identifier)
          /\ EnabledOf(vaultFile', mi) = NoVersion
          /\ ~LinkAt(symlinks', mi)
          /\ ~DirExists(storeDirs', identifier)]_vars

\* C8 (as claimed): after a successful Remove of the only remaining version
\* of a module, the module is no longer known to the vault.
C8_RemoveOfLastVersionForgetsModule ==
    [][LET identifier == last'.identifier
           mi == identifier.ModuleIdentifier IN
       (/\ last'.op = "Remove"
        /\ last'.err = "nil"
        /\ RecordsOf(vaultFile, mi) = {identifier.Version})
       => ~Known(vaultFile', mi)]_vars

\* C9 (as claimed): while every operation so far returned success, a store
\* directory exists for a version iff the persisted vault holds a
\* VersionRecord for it.
C9_StoreDirIffRecord ==
    allOk =>
        \A mi \in ModuleIdentifier, v \in Versions :
            DirExists(storeDirs, VersionOf(mi, v)) <=> HasRecord(vaultFile, VersionOf(mi, v))

\* C10: a Remove whose vault mutation or manifest write fails (unknown
\* module, unreadable or unwritable manifest) returns a failure and leaves
\* the store as it was; a Remove that changes the store has written the
\* vault, and the written vault has no record of the version.
C10_StoreDeletedAfterVaultCommit ==
    [][last'.op = "Remove"
       => /\ (~Known(vaultFile, last'.identifier.ModuleIdentifier) \/ last'.write # "ok")
                => (last'.err # "nil" /\ storeDirs' = storeDirs)
          /\ (storeDirs' # storeDirs)
                => (/\ last'.write = "ok"
                    /\ vaultFile'.status = "ok"
                    /\ ~HasRecord(vaultFile', last'.identifier))]_vars

\* C10 witness: a Remove of a version failed in writing the manifest, and the
\* version's store directory is still there.
C10_Witness ==
    /\ last.op = "Remove" /\ last.write \in {"denied", "torn"} /\ last.err = "write"
    /\ last.identifier.Version # NoVersion
    /\ DirExists(storeDirs, last.identifier)

----------------------------------------------------------------------------
(* The operations that go through MutateVault: Remove, and Install once    *)
(* the archive is extracted.                                               *)

ThroughMutateVault(call) ==
    \/ call.op = "Remove"
    \/ call.op = "Install" /\ call.archive = "ok"

\* the vault the operation's mutation leaves of a vault that knows the module
MutatedVault(call, v) ==
    LET id == call.identifier
        mi == id.ModuleIdentifier IN
    IF call.op = "Remove"
    THEN [v EXCEPT !.Modules[mi.Author][mi.Name].Metadatas = Delete(@, id.Version)]
    ELSE [v EXCEPT !.Modules[mi.Author][mi.Name].Metadatas =
                        Put(@, id.Version, InstallRecord(Metadata(<<mi.Author>>, mi.Name, id.Version)))]

\* C11: MutateVault persists only on success.  When the manifest cannot be
\* loaded or the mutation reports failure (the module is not known), the
\* operation returns an error and the manifest file is what it was; when the
\* mutation reports success and the write goes through, the file holds the
\* whole mutated vault.
C11_MutateVaultPersistsOnlyOnSuccess ==
    [][ThroughMutateVault(last')
       => /\ ~Known(vaultFile, last'.identifier.ModuleIdentifier)
                => (last'.err # "nil" /\ vaultFile' = vaultFile)
          /\ (Known(vaultFile, last'.identifier.ModuleIdentifier) /\ last'.write = "ok")
                => vaultFile' = File("ok", MutatedVault(last', vaultFile.content))]_vars

\* C11 witness: a Remove loaded the manifest, its mutation reported failure
\* (the module is not in the vault), and the manifest is still readable.
C11_Witness ==
    /\ last.op = "Remove" /\ last.err = "failed to mutate vault"
    /\ vaultFile.status = "ok"
    /\ ~Known(vaultFile, last.identifier.ModuleIdentifier)

\* C12: Toggle(v, false) on a known module whose enabled version is not v
\* returns success and leaves the manifest, the symlinks and the store as
\* they were.
C12_DisableOfNotEnabledIsNoOp ==
    [][(/\ last'.op = "Toggle"
        /\ ~last'.enabled
        /\ Known(vaultFile, last'.identifier.ModuleIdentifier)
        /\ EnabledOf(vaultFile, last'.identifier.ModuleIdentifier) # last'.identifier.Version)
       => /\ last'.err = "nil"
          /\ UNCHANGED <<vaultFile, symlinks, storeDirs>>]_vars

\* C12 witness: a Toggle(v, false) returned success on a module whose
\* enabled version is another one, whose symlink is in place.
C12_Witness ==
    /\ last.op = "Toggle" /\ ~last.enabled /\ last.err = "nil"
    /\ last.identifier.Version # NoVersion
    /\ EnabledOf(vaultFile, last.identifier.ModuleIdentifier)
            \notin {NoVersion, last.identifier.Version}
    /\ LinkAt(symlinks, last.identifier.ModuleIdentifier)

\* C13: Toggle(v, true) is idempotent.  A Toggle(v, true) that follows a
\* Toggle(v, true) under the same answers of the system (the same outcome of
\* the manifest write; a refused symlink is refused again) leaves the
\* manifest and the symlinks as the first call left them and returns what
\* the first call returned.
C13_EnableIsIdempotent ==
    [][(/\ last.op = "Toggle" /\ last.enabled
        /\ last'.op = "Toggle" /\ last'.enabled
        /\ last'.identifier = last.identifier
        /\ last'.write = last.write
        /\ last.symlink = "err" => last'.symlink = "err")
       => /\ last'.err = last.err
          /\ UNCHANGED <<vaultFile, symlinks, storeDirs>>]_vars

\* C13 witness: a Toggle(v, true) found the symlink to v that an earlier
\* Toggle(v, true) created (the seeded installation had none: its Enabled
\* is empty), and returned success.
C13_Witness ==
    /\ last.op = "Toggle" /\ last.enabled /\ last.err = "nil"
    /\ last.symlink = "EEXIST"
    /\ EnabledOf(vaultFile, last.identifier.ModuleIdentifier) = NoVersion
    /\ LinksTo(symlinks, last.identifier)

\* the step is a Remove of the version whose Install just failed in
\* extraction, the files written being on disk with no record in the vault
RemoveAfterFailedExtraction ==
    /\ last.op = "Install" /\ last.archive = "extract"
    /\ DirExists(storeDirs, last.identifier)
    /\ ~HasRecord(vaultFile, last.identifier)
    /\ last'.op = "Remove"
    /\ last'.identifier = last.identifier

SymlinkAgrees(file, links, mi) ==
    /\ LinkAt(links, mi) <=> EnabledOf(file, mi) # NoVersion
    /\ LinkAt(links, mi) => LinksTo(links, VersionOf(mi, EnabledOf(file, mi)))

\* C15 (as claimed): when a Toggle or a Remove that starts with the symlinks
\* agreeing with the manifest returns a failure, and the manifest is still
\* readable, the symlinks still agree with the persisted Enabled.
C15_SymlinkAgreesAfterFailure ==
    [][(/\ last'.op \in {"Toggle", "Remove"}
        /\ last'.err # "nil"
        /\ vaultFile'.status = "ok"
        /\ \A mi \in ModuleIdentifier : SymlinkAgrees(vaultFile, symlinks, mi))
       => \A mi \in ModuleIdentifier : SymlinkAgrees(vaultFile', symlinks', mi)]_vars

\* p and q both loaded the manifest before either wrote it, both wrote it,
\* p first and q second
BothLoadBeforeEitherPersists(p, q) ==
    /\ p # q
    /\ inflight[p].pc = "done" /\ inflight[q].pc = "done"
    /\ inflight[p].loadedAt = 0 /\ inflight[q].loadedAt = 0
    /\ inflight[p].wroteAt = 1 /\ inflight[q].wroteAt = 2

\* the vault an invocation writes, computed from the vault it loaded
Snapshot(p) ==
    IF inflight[p].call.op = "Toggle"
    THEN inflight[p].vault
    ELSE MutatedVault(inflight[p].call, inflight[p].vault)

\* the record the earlier writer added is not in the file, the record it
\* removed is in the file again, unless the later writer acted on the same
\* version
ChangeLost(p, q) ==
    LET c == inflight[p].call
        loaded == File("ok", inflight[p].vault) IN
    (c.op \in {"Install", "Remove"} /\ inflight[q].call.identifier # c.identifier)
        => (HasRecord(vaultFile, c.identifier) <=> HasRecord(loaded, c.identifier))

WellFormed(text) ==
    /\ Len(Split(text)) = 3
    /\ Split(text)[1] # <<>>
    /\ Split(text)[2] # <<>>

\* C17 (as claimed): parsing a text <author>/<name>/<version> yields the
\* StoreIdentifier with that Author, Name and Version; parsing any other
\* text returns a parse error; no text makes the parser crash.
C17_ParseStoreIdentifier ==
    argv.result # NotParsed =>
        /\ ~argv.result.panics
        /\ WellFormed(argv.text) =>
                argv.result.identifier =
                    [ModuleIdentifier |-> [Author |-> Split(argv.text)[1],
                                           Name |-> Split(argv.text)[2]],
                     Version |-> Split(argv.text)[3]]
        /\ ~WellFormed(argv.text) => argv.result.err # "nil"

\* C18 (as claimed): a Toggle(v, true) during which the system refuses to
\* create the module-path symlink returns a failure.
C18_ToggleFailsOnSymlinkError ==
    [][(/\ last'.op = "Toggle"
        /\ last'.enabled
        /\ last'.symlink = "err")
       => last'.err # "nil"]_vars

\* C19 (as claimed): an Install whose archive download is answered with a
\* non-success HTTP status returns a failure, extracts nothing and adds no
\* VersionRecord.
C19_NonSuccessResponseFailsInstall ==
    [][(/\ last'.op = "Install"
        /\ response' \in Response
        /\ response'.StatusCode # 200)
       => /\ last'.err # "nil"
          /\ storeDirs' = storeDirs
          /\ HasRecord(vaultFile', last'.identifier) => HasRecord(vaultFile, last'.identifier)]_vars

\* the step is an Install whose metadata document was fetched and has no
\* authors (Authors[0] panics) or an empty version
InstallOfMalformedMetadata ==
    /\ last'.op = "Install"
    /\ \/ last'.err = "panic"
       \/ last'.archive # "none" /\ last'.identifier.Version = NoVersion

\* C20 (as claimed): an Install whose metadata has an empty authors list or an
\* empty version returns a metadata error before the archive installer
\* runs: nothing is written under the store root and the vault is unchanged.
C20_MalformedMetadataIsRejected ==
    [][InstallOfMalformedMetadata
       => /\ last'.err = "metadata"
          /\ last'.archive = "none"
          /\ storeDirs' = storeDirs
          /\ vaultFile' = vaultFile]_vars

\* parseGithubRawLink has returned
Resolved == resolved.result.err # "none"

\* the ref is exactly 40 hexadecimal characters
IsCommitHash(v) == Len(v) = CommitLen /\ \A i \in 1..Len(v) : v[i] \in HexDigits

\* C21 (as claimed): resolving a raw link whose ref is 40 hexadecimal
\* characters sends no branch listing request, and returns Commit(ref)
\* whatever the branch listing would have answered, a failure included.
C21_CommitNeedsNoBranchListing ==
    (/\ Resolved
     /\ githubRawRe(resolved.metadataURL).matches
     /\ IsCommitHash(resolved.metadataURL.version)) =>
        /\ ~resolved.result.listed
        /\ resolved.result.err = "nil"
        /\ resolved.result.version =
                GithubPathVersion("commit", resolved.metadataURL.version, <<>>, <<>>)

\* C22 (as claimed): with the branch list fetched, a ref is a Commit iff it
\* is exactly 40 hexadecimal characters (also when a branch has that name);
\* otherwise a Branch iff it equals a fetched branch name; otherwise the Tag
\* of the percent-decoded ref.  A 40-character ref with a non-hexadecimal
\* character is never a Commit.
C22_ClassificationPriority ==
    (Resolved /\ githubRawRe(resolved.metadataURL).matches /\ resolved.branches.err = "nil") =>
        LET v == resolved.metadataURL.version
            version == resolved.result.version
        IN  /\ version.type = "commit" <=> IsCommitHash(v)
            /\ IsCommitHash(v) => version = GithubPathVersion("commit", v, <<>>, <<>>)
            /\ ~IsCommitHash(v) =>
                    /\ version.type = "branch" <=> v \in resolved.branches.names
                    /\ v \in resolved.branches.names =>
                            version = GithubPathVersion("branch", <<>>, <<>>, v)
                    /\ (v \notin resolved.branches.names /\ resolved.result.err = "nil") =>
                            version = GithubPathVersion("tag", <<>>, QueryUnescape(v).value, <<>>)

\* C23 (as claimed): a Remove, of any identifier, one with an empty Version
\* included, deletes no store directory but the one of the identifier's own
\* version: every other version that has a record in the vault after the
\* Remove, and had its store directory before, keeps the directory.
C23_RemoveKeepsOtherVersions ==
    [][last'.op = "Remove"
       => \A mi \in ModuleIdentifier, v \in Versions :
            (/\ VersionOf(mi, v) # last'.identifier
             /\ HasRecord(vaultFile', VersionOf(mi, v))
             /\ DirExists(storeDirs, VersionOf(mi, v)))
            => DirExists(storeDirs', VersionOf(mi, v))]_vars

\* C24 (as claimed): in every reachable state a symlink at a module path
\* points to the store path of a version that has a record in the vault; a
\* Toggle(v, true) on a known module for a version v with no record creates
\* no symlink.
C24_SymlinkNeverDangles ==
    \A mi \in ModuleIdentifier :
        LinkAt(symlinks, mi) =>
            \E v \in RecordsOf(vaultFile, mi) : LinksTo(symlinks, VersionOf(mi, v))

====
